---- MODULE Spec2Model ----
(***************************************************************************)
(* A model of the go-i2c bus connection (src/i2c.go, with the addr and bus *)
(* fields of src/unnamed/part_001) and of its SMBus-over-I2C register      *)
(* operations.  The connection's os.File, the kernel's i2c-dev node and    *)
(* the peripheral behind it are the environment: a register file that      *)
(* answers the transfers, each of which may also fail.                     *)
(***************************************************************************)
EXTENDS Integers, Sequences, FiniteSets, TLC

(* ---------------------------------------------------------------- bounds *)

\* The peripheral has the registers 0..MaxReg.
MaxReg == 1
\* The callers (threads of control) that share the connection are 1..NumCallers.
NumCallers == 2
\* At most MaxOpens device nodes are opened in one behaviour.
MaxOpens == 1
\* ReadRegBytes is asked for 0..MaxN bytes.
MaxN == 2
\* The register the word and lifecycle specifications read and write.
WordReg == 0

Regs == 0..MaxReg
NumRegs == MaxReg + 1
Callers == 1..NumCallers

(* ------------------------------------------------------------- constants *)

I2C_SLAVE == 1795

Nil == "nil"
\* os.ErrClosed, what os.File returns for every use of a closed file.
ErrClosed == "ErrClosed"
\* io.EOF, what os.File.Read returns when a non-empty read delivers nothing.
EOF == "EOF"

\* The bytes and words the callers use as arguments (the word specification
\* draws its word from the whole 16-bit range instead).
ByteArgs == {1, 128}
WordArgs == {384}
\* The (address, bus) pairs NewI2C is called with.
Targets == {<<39, 2>>, <<118, 1>>}

\* What the environment may answer to a write, to a read, to OpenFile, to the
\* binding ioctl and to close.
WriteOutcomes == {"ok", "EIO", "EREMOTEIO"}
ReadOutcomes == {"ok", "short", "EIO"}
OpenOutcomes == {"ok", "ENOENT"}
IoctlOutcomes == {"ok", "EBUSY"}
CloseOutcomes == {"ok", "EIO"}
\* The answers to the transfers of one operation: to its write, to its read, or
\* to both (the read is reached only when the write succeeded).
WOracles == {[w |-> x, r |-> "ok"] : x \in WriteOutcomes}
ROracles == {[w |-> "ok", r |-> x] : x \in ReadOutcomes}
Oracles == WOracles \cup ROracles
OkOracle == [w |-> "ok", r |-> "ok"]

(* ------------------------------------------------ fixed-width arithmetic *)

\* uint16(x), int16(x) and byte(x): Go's conversions wrap.
U16(x) == x % 65536
S16(x) == LET u == x % 65536 IN IF u >= 32768 THEN u - 65536 ELSE u
U8(x) == x % 256
\* a*b on uint16 operands, wrapped to 16 bits; the product is taken by halves
\* of a so that no intermediate value exceeds 32 bits.
MulU16(a, b) == ((((a \div 256) * b) % 256) * 256 + (a % 256) * b) % 65536

\* make([]byte, n)
Zeros(n) == [i \in 1..n |-> 0]

(* ----------------------------------------------------------------- state *)

VARIABLES
    v,          \* the connection NewI2C returned: [rc, addr, bus], or NoConn
    files,      \* the device nodes opened so far: [path, open]
    ioctls,     \* the control calls issued so far: [fd, cmd, arg, res]
    sel,        \* the peripheral's selected register
    mem,        \* the peripheral's register file
    wire,       \* the calls to rc.Write and rc.Read of the operations in progress
    pc,         \* per caller: "idle", or "selected" between the two transfers of ReadRegU8
    lreg,       \* per caller: the reg argument of its ReadRegU8 in progress
    ret,        \* what the last operation that returned has returned, and the
                \* calls to rc.Write and rc.Read it made
    written,    \* per register: the byte WriteRegU8 stored there last, or -1 once
                \* another write has touched the register
    serialized, \* whether the callers start an operation only when none is in progress
    word        \* the word specification's input

vars == <<v, files, ioctls, sel, mem, wire, pc, lreg, ret, written, serialized, word>>

NoConn == [rc |-> 0, addr |-> 0, bus |-> 0]

\* fmt.Sprintf("/dev/i2c-%d", bus)
DevPath(bus) == "/dev/i2c-" \o ToString(bus)

(* ------------------------------------------------------------- transport *)

\* One call to rc.Write or rc.Read: who made it, on which file, the bytes handed
\* to Write or delivered by Read, the length asked for, the count and the error
\* returned; and for a read, the register the peripheral had selected when the
\* call came (-1 for a write).
Xfer(p, t, dir, buf, len, n, err) ==
    [by |-> p, fd |-> t.fd, dir |-> dir, buf |-> buf, len |-> len, n |-> n,
     err |-> err, ptr |-> IF dir = "r" THEN t.sel ELSE -1]

Logged(t, x) == [t EXCEPT !.wire = Append(@, x)]

\* The registers a write of buf stores to: buf[1] is the register, the bytes
\* after it go to that register and the ones following it.
Touched(buf) == {(buf[1] + i) % NumRegs : i \in 0..(Len(buf) - 2)}

\* The peripheral takes a write: one byte selects a register, the bytes after a
\* register byte are stored from that register on (a later byte wins when the
\* registers wrap).
DevStore(t, buf) ==
    IF Len(buf) = 1
    THEN [t EXCEPT !.sel = buf[1] % NumRegs]
    ELSE [t EXCEPT !.mem = [r \in Regs |->
            IF r \in Touched(buf)
            THEN LET is == {i \in 0..(Len(buf) - 2) : (buf[1] + i) % NumRegs = r}
                     last == CHOOSE i \in is : \A j \in is : j <= i
                 IN buf[last + 2]
            ELSE t.mem[r]]]

\* The peripheral answers a read of c bytes from the selected register on.
DevFetch(t, c) == [i \in 1..c |-> t.mem[(t.sel + i - 1) % NumRegs]]

\* v.rc.Write(buf): a closed file refuses, the transfer may fail, or the
\* peripheral takes all of buf.
write(t, p, buf, o) ==
    IF t.rc # "open"
    THEN [t |-> Logged(t, Xfer(p, t, "w", buf, Len(buf), 0, ErrClosed)),
          n |-> 0, err |-> ErrClosed]
    ELSE IF o.w # "ok"
    THEN [t |-> Logged(t, Xfer(p, t, "w", buf, Len(buf), 0, o.w)),
          n |-> 0, err |-> o.w]
    ELSE [t |-> Logged(DevStore(t, buf), Xfer(p, t, "w", buf, Len(buf), Len(buf), Nil)),
          n |-> Len(buf), err |-> Nil]

\* The count a read of n bytes delivers: all of them, or one less (a short read).
Delivered(n, o) == IF o.r = "short" /\ n > 0 THEN n - 1 ELSE n

\* v.rc.Read(buf) with len(buf) = n: a closed file refuses, the transfer may
\* fail, or the peripheral fills the first c bytes of buf; os.File turns a
\* non-empty read that delivers nothing into io.EOF, and answers an empty
\* read itself, with no transfer that could fail.
read(t, p, n, o) ==
    IF t.rc # "open"
    THEN [t |-> Logged(t, Xfer(p, t, "r", <<>>, n, 0, ErrClosed)),
          buf |-> Zeros(n), n |-> 0, err |-> ErrClosed]
    ELSE IF o.r \notin {"ok", "short"} /\ n > 0
    THEN [t |-> Logged(t, Xfer(p, t, "r", <<>>, n, 0, o.r)),
          buf |-> Zeros(n), n |-> 0, err |-> o.r]
    ELSE LET c == Delivered(n, o)
             e == IF c = 0 /\ n > 0 THEN EOF ELSE Nil
             got == DevFetch(t, c)
         IN [t |-> Logged(t, Xfer(p, t, "r", got, n, c, e)),
             buf |-> [i \in 1..n |-> IF i <= c THEN got[i] ELSE 0],
             n |-> c, err |-> e]

\* WriteBytes: log, then write.
WriteBytes(t, p, buf, o) == write(t, p, buf, o)

\* ReadBytes: read, then log, and return what read returned.
ReadBytes(t, p, n, o) == read(t, p, n, o)

(* ----------------------------------------------------- word conversions *)

\* w := uint16(buf[0])<<8 + uint16(buf[1])
ComposeU16(buf) == U16(U16(buf[1] * 256) + buf[2])

\* SwapU16 without the shift of the high byte: w = (w&0xFF)<<8 + w
SwapU16_Unshifted(w) == U16(U16((w % 256) * 256) + w)

\* w = (w&0xFF)<<8 + w>>8 on a uint16
SwapU16(w) == U16(U16((w % 256) * 256) + (w \div 256))

\* ComposeS16 with the low byte sign-extended: int16(buf[0])<<8 + int16(int8(buf[1]))
ComposeS16_SignExtended(buf) ==
    S16(S16(buf[1] * 256) + (IF buf[2] >= 128 THEN buf[2] - 256 ELSE buf[2]))

\* w := int16(buf[0])<<8 + int16(buf[1])
ComposeS16(buf) == S16(S16(buf[1] * 256) + buf[2])

\* w = (w&0xFF)<<8 + w>>8 on an int16: & takes the low byte of the two's
\* complement pattern, >> is an arithmetic shift (\div rounds down).
SwapS16(w) == S16(S16((w % 256) * 256) + (w \div 256))

\* SplitU16 with the low byte first: []byte{reg, byte(value & 0xFF), byte(value >> 8)}
SplitU16_LowFirst(reg, value) ==
    <<reg, U8(value % 256), U8((value - (value % 256)) \div 256)>>

\* []byte{reg, byte((value & 0xFF00) >> 8), byte(value & 0xFF)}
SplitU16(reg, value) ==
    <<reg, U8((value - (value % 256)) \div 256), U8(value % 256)>>

\* w := (value*0xFF00)>>8 + value<<8 on a uint16
RotateU16(value) == U16((MulU16(value, 65280) \div 256) + U16(value * 256))

\* []byte{reg, byte((uint16(value) & 0xFF00) >> 8), byte(value & 0xFF)}
SplitS16(reg, value) ==
    <<reg, U8((U16(value) - (U16(value) % 256)) \div 256), U8(value % 256)>>

\* w := int16((uint16(value)*0xFF00)>>8) + value<<8 on an int16
RotateS16(value) ==
    S16(S16(MulU16(U16(value), 65280) \div 256) + S16(value * 256))

(* ---------------------------------------------------- register operations *)

\* What an operation hands back: the transport after it, and its results.
Ret(t, val, buf, err) == [t |-> t, val |-> val, buf |-> buf, err |-> err]

\* ReadRegBytes that hands back its buffer when the read fails.
ReadRegBytes_KeepsBuffer(t, p, reg, n, o) ==
    LET w == WriteBytes(t, p, <<reg>>, o) IN
    IF w.err # Nil THEN Ret(w.t, 0, <<>>, w.err)
    ELSE LET r == ReadBytes(w.t, p, n, o) IN Ret(r.t, r.n, r.buf, r.err)

ReadRegBytes(t, p, reg, n, o) ==
    LET w == WriteBytes(t, p, <<reg>>, o) IN
    IF w.err # Nil THEN Ret(w.t, 0, <<>>, w.err)
    ELSE LET r == ReadBytes(w.t, p, n, o) IN
         IF r.err # Nil THEN Ret(r.t, 0, <<>>, r.err)
         ELSE Ret(r.t, r.n, r.buf, Nil)

\* ReadRegU8 without its register-select write.
ReadRegU8Select_Skipped(t, p, reg, o) == Ret(t, 0, <<>>, Nil)

\* The first half of ReadRegU8: the register-select write.
ReadRegU8Select(t, p, reg, o) ==
    LET w == WriteBytes(t, p, <<reg>>, o) IN Ret(w.t, 0, <<>>, w.err)

\* The second half of ReadRegU8: the read of one byte.
ReadRegU8Fetch(t, p, o) ==
    LET r == ReadBytes(t, p, 1, o) IN
    IF r.err # Nil THEN Ret(r.t, 0, <<>>, r.err)
    ELSE Ret(r.t, r.buf[1], <<>>, Nil)

\* WriteRegU8 with the value before the register.
WriteRegU8_Swapped(t, p, reg, value, o) ==
    LET w == WriteBytes(t, p, <<value, reg>>, o) IN Ret(w.t, 0, <<>>, w.err)

WriteRegU8(t, p, reg, value, o) ==
    LET w == WriteBytes(t, p, <<reg, value>>, o) IN Ret(w.t, 0, <<>>, w.err)

\* ReadRegU16BE without the check of the register-select write's error.
ReadRegU16BE_Unchecked(t, p, reg, o) ==
    LET w == WriteBytes(t, p, <<reg>>, o)
        r == ReadBytes(w.t, p, 2, o)
    IN IF r.err # Nil THEN Ret(r.t, 0, <<>>, r.err)
       ELSE Ret(r.t, ComposeU16(r.buf), <<>>, Nil)

ReadRegU16BE(t, p, reg, o) ==
    LET w == WriteBytes(t, p, <<reg>>, o) IN
    IF w.err # Nil THEN Ret(w.t, 0, <<>>, w.err)
    ELSE LET r == ReadBytes(w.t, p, 2, o) IN
         IF r.err # Nil THEN Ret(r.t, 0, <<>>, r.err)
         ELSE Ret(r.t, ComposeU16(r.buf), <<>>, Nil)

\* ReadRegU16LE as a transfer of its own: after the big-endian read it reads
\* the two bytes again and composes them low byte first.
ReadRegU16LE_Reissued(t, p, reg, o) ==
    LET b == ReadRegU16BE(t, p, reg, o) IN
    IF b.err # Nil THEN Ret(b.t, 0, <<>>, b.err)
    ELSE LET r == ReadBytes(b.t, p, 2, o) IN
         IF r.err # Nil THEN Ret(r.t, 0, <<>>, r.err)
         ELSE Ret(r.t, ComposeU16(<<r.buf[2], r.buf[1]>>), <<>>, Nil)

ReadRegU16LE(t, p, reg, o) ==
    LET b == ReadRegU16BE(t, p, reg, o) IN
    IF b.err # Nil THEN Ret(b.t, 0, <<>>, b.err)
    ELSE Ret(b.t, SwapU16(b.val), <<>>, Nil)

ReadRegS16BE(t, p, reg, o) ==
    LET w == WriteBytes(t, p, <<reg>>, o) IN
    IF w.err # Nil THEN Ret(w.t, 0, <<>>, w.err)
    ELSE LET r == ReadBytes(w.t, p, 2, o) IN
         IF r.err # Nil THEN Ret(r.t, 0, <<>>, r.err)
         ELSE Ret(r.t, ComposeS16(r.buf), <<>>, Nil)

ReadRegS16LE(t, p, reg, o) ==
    LET b == ReadRegS16BE(t, p, reg, o) IN
    IF b.err # Nil THEN Ret(b.t, 0, <<>>, b.err)
    ELSE Ret(b.t, SwapS16(b.val), <<>>, Nil)

WriteRegU16BE(t, p, reg, value, o) ==
    LET w == WriteBytes(t, p, SplitU16(reg, value), o) IN Ret(w.t, 0, <<>>, w.err)

WriteRegU16LE(t, p, reg, value, o) ==
    WriteRegU16BE(t, p, reg, RotateU16(value), o)

WriteRegS16BE(t, p, reg, value, o) ==
    LET w == WriteBytes(t, p, SplitS16(reg, value), o) IN Ret(w.t, 0, <<>>, w.err)

WriteRegS16LE(t, p, reg, value, o) ==
    WriteRegS16BE(t, p, reg, RotateS16(value), o)


(* --------------------------------------------------------------- actions *)

NoRet == [by |-> 0, op |-> "none", reg |-> 0, arg |-> 0, val |-> 0, buf |-> <<>>,
          err |-> Nil, calls |-> <<>>]

\* The transport as an operation finds it: the connection's file, open or
\* closed, the peripheral behind it, and the calls made so far.
Transport ==
    [rc |-> IF files[v.rc].open THEN "open" ELSE "closed", fd |-> v.rc,
     sel |-> sel, mem |-> mem, wire |-> wire]

\* The callers are external to the library: a caller starts an operation on a
\* connection it holds, when it is idle and, if the callers serialize, when no
\* other caller is in the middle of one.
CanStart(p) ==
    /\ v # NoConn
    /\ pc[p] = "idle"
    /\ serialized => \A q \in Callers : pc[q] = "idle"

\* The registers the successful writes of caller p in log w have stored to.
Stores(w, p) ==
    UNION {Touched(w[i].buf) : i \in {j \in 1..Len(w) :
        w[j].by = p /\ w[j].dir = "w" /\ w[j].err = Nil /\ w[j].len >= 2}}

\* Operation op of caller p returns r: the peripheral is as the operation left
\* it, and ret is what the caller got, with the calls the operation made.
Returns(p, op, reg, arg, r) ==
    LET Mine(x) == x.by = p
        Others(x) == x.by # p
    IN  /\ sel' = r.t.sel
        /\ mem' = r.t.mem
        /\ wire' = SelectSeq(r.t.wire, Others)
        /\ ret' = [by |-> p, op |-> op, reg |-> reg, arg |-> arg,
                   val |-> r.val, buf |-> r.buf, err |-> r.err,
                   calls |-> SelectSeq(r.t.wire, Mine)]
        /\ written' = [x \in Regs |->
                IF op = "WriteRegU8" /\ r.err = Nil /\ x = reg THEN arg
                ELSE IF x \in Stores(r.t.wire, p) THEN -1
                ELSE written[x]]
        /\ UNCHANGED <<v, files, ioctls, serialized, word>>

\* The binding call with the address doubled, as an 8-bit bus address.
Bind_Shifted(fd, addr, oi) == [fd |-> fd, cmd |-> I2C_SLAVE, arg |-> 2 * addr, res |-> oi]

\* ioctl(f.Fd(), I2C_SLAVE, uintptr(addr)), answered oi
Bind(fd, addr, oi) == [fd |-> fd, cmd |-> I2C_SLAVE, arg |-> addr, res |-> oi]

\* NewI2C(addr, bus): open the bus's device node, bind the address, and return
\* the connection; an error of either call is returned instead.
NewI2C(addr, bus, oo, oi) ==
    /\ v = NoConn
    /\ Len(files) < MaxOpens
    /\ IF oo # "ok"
       THEN /\ ret' = [NoRet EXCEPT !.op = "NewI2C", !.err = oo]
            /\ UNCHANGED <<v, files, ioctls>>
       ELSE /\ files' = Append(files, [path |-> DevPath(bus), open |-> TRUE])
            /\ ioctls' = Append(ioctls, Bind(Len(files) + 1, addr, oi))
            /\ IF oi # "ok"
               THEN /\ ret' = [NoRet EXCEPT !.op = "NewI2C", !.err = oi]
                    /\ UNCHANGED v
               ELSE /\ ret' = [NoRet EXCEPT !.op = "NewI2C"]
                    /\ v' = [rc |-> Len(files) + 1, addr |-> addr, bus |-> bus]
    /\ UNCHANGED <<sel, mem, wire, pc, lreg, written, serialized, word>>

\* The *os.File that NewI2C opened and dropped when the binding call failed
\* is unreachable: the runtime may close it when it collects it, at any time
\* or never.  A file a connection holds is reachable.
Finalize(fd) ==
    /\ fd \in 1..Len(files)
    /\ files[fd].open
    /\ v = NoConn \/ v.rc # fd
    /\ files' = [files EXCEPT ![fd].open = FALSE]
    /\ UNCHANGED <<v, ioctls, sel, mem, wire, pc, lreg, ret, written, serialized, word>>

\* Close that returns nil and leaves the file open.
Close_Forgetful(p, oc) ==
    /\ CanStart(p)
    /\ ret' = [NoRet EXCEPT !.by = p, !.op = "Close"]
    /\ UNCHANGED <<v, files, ioctls, sel, mem, wire, pc, lreg, written, serialized, word>>

\* Close(): v.rc.Close(). A closed file refuses; an open one is closed whatever
\* close(2) answers.
Close(p, oc) ==
    /\ CanStart(p)
    /\ IF files[v.rc].open
       THEN /\ files' = [files EXCEPT ![v.rc].open = FALSE]
            /\ ret' = [NoRet EXCEPT !.by = p, !.op = "Close",
                                    !.err = IF oc = "ok" THEN Nil ELSE oc]
       ELSE /\ ret' = [NoRet EXCEPT !.by = p, !.op = "Close", !.err = ErrClosed]
            /\ UNCHANGED files
    /\ UNCHANGED <<v, ioctls, sel, mem, wire, pc, lreg, written, serialized, word>>

CallWriteBytes(p, buf, o) ==
    /\ CanStart(p)
    /\ LET w == WriteBytes(Transport, p, buf, o)
       IN Returns(p, "WriteBytes", 0, 0, Ret(w.t, w.n, buf, w.err))
    /\ UNCHANGED <<pc, lreg>>

CallReadBytes(p, n, o) ==
    /\ CanStart(p)
    /\ LET r == ReadBytes(Transport, p, n, o)
       IN Returns(p, "ReadBytes", 0, n, Ret(r.t, r.n, r.buf, r.err))
    /\ UNCHANGED <<pc, lreg>>

CallReadRegBytes(p, reg, n, o) ==
    /\ CanStart(p)
    /\ Returns(p, "ReadRegBytes", reg, n, ReadRegBytes(Transport, p, reg, n, o))
    /\ UNCHANGED <<pc, lreg>>

\* ReadRegU8 up to the return of its register-select write: an error returns,
\* otherwise the caller goes on to the read.
CallReadRegU8(p, reg, o) ==
    /\ CanStart(p)
    /\ LET r == ReadRegU8Select(Transport, p, reg, o) IN
       IF r.err # Nil
       THEN /\ Returns(p, "ReadRegU8", reg, 0, r)
            /\ UNCHANGED <<pc, lreg>>
       ELSE /\ sel' = r.t.sel
            /\ mem' = r.t.mem
            /\ wire' = r.t.wire
            /\ pc' = [pc EXCEPT ![p] = "selected"]
            /\ lreg' = [lreg EXCEPT ![p] = reg]
            /\ UNCHANGED <<v, files, ioctls, ret, written, serialized, word>>

\* ReadRegU8 from its read to its return.
ReturnReadRegU8(p, o) ==
    /\ pc[p] = "selected"
    /\ Returns(p, "ReadRegU8", lreg[p], 0, ReadRegU8Fetch(Transport, p, o))
    /\ pc' = [pc EXCEPT ![p] = "idle"]
    /\ lreg' = [lreg EXCEPT ![p] = 0]

CallWriteRegU8(p, reg, value, o) ==
    /\ CanStart(p)
    /\ Returns(p, "WriteRegU8", reg, value, WriteRegU8(Transport, p, reg, value, o))
    /\ UNCHANGED <<pc, lreg>>

CallReadRegU16BE(p, reg, o) ==
    /\ CanStart(p)
    /\ Returns(p, "ReadRegU16BE", reg, 0, ReadRegU16BE(Transport, p, reg, o))
    /\ UNCHANGED <<pc, lreg>>

CallReadRegU16LE(p, reg, o) ==
    /\ CanStart(p)
    /\ Returns(p, "ReadRegU16LE", reg, 0, ReadRegU16LE(Transport, p, reg, o))
    /\ UNCHANGED <<pc, lreg>>

CallReadRegS16BE(p, reg, o) ==
    /\ CanStart(p)
    /\ Returns(p, "ReadRegS16BE", reg, 0, ReadRegS16BE(Transport, p, reg, o))
    /\ UNCHANGED <<pc, lreg>>

CallReadRegS16LE(p, reg, o) ==
    /\ CanStart(p)
    /\ Returns(p, "ReadRegS16LE", reg, 0, ReadRegS16LE(Transport, p, reg, o))
    /\ UNCHANGED <<pc, lreg>>

CallWriteRegU16BE(p, reg, value, o) ==
    /\ CanStart(p)
    /\ Returns(p, "WriteRegU16BE", reg, value, WriteRegU16BE(Transport, p, reg, value, o))
    /\ UNCHANGED <<pc, lreg>>

CallWriteRegU16LE(p, reg, value, o) ==
    /\ CanStart(p)
    /\ Returns(p, "WriteRegU16LE", reg, value, WriteRegU16LE(Transport, p, reg, value, o))
    /\ UNCHANGED <<pc, lreg>>

CallWriteRegS16BE(p, reg, value, o) ==
    /\ CanStart(p)
    /\ Returns(p, "WriteRegS16BE", reg, value, WriteRegS16BE(Transport, p, reg, value, o))
    /\ UNCHANGED <<pc, lreg>>

CallWriteRegS16LE(p, reg, value, o) ==
    /\ CanStart(p)
    /\ Returns(p, "WriteRegS16LE", reg, value, WriteRegS16LE(Transport, p, reg, value, o))
    /\ UNCHANGED <<pc, lreg>>

(* -------------------------------------------------------- specifications *)

\* The buffers the callers hand to WriteBytes.
RawBufs == {<<reg>> : reg \in Regs} \cup {<<reg, x>> : reg \in Regs, x \in ByteArgs}

\* The lifecycle specification.  No connection yet; the peripheral holds some
\* bytes.  One caller opens the connection, uses every operation on it, an
\* operation at a time, the register operations on register WordReg, and
\* closes it; the transfers themselves succeed whenever the file is open.
Init ==
    /\ v = NoConn
    /\ files = <<>>
    /\ ioctls = <<>>
    /\ sel = 0
    /\ mem = [r \in Regs |-> IF r = 0 THEN 128 ELSE 1]
    /\ wire = <<>>
    /\ pc = [p \in Callers |-> "idle"]
    /\ lreg = [p \in Callers |-> 0]
    /\ ret = NoRet
    /\ written = [r \in Regs |-> -1]
    /\ serialized = TRUE
    /\ word = 0

Next ==
    \/ \E a \in Targets, oo \in OpenOutcomes, oi \in IoctlOutcomes :
            NewI2C(a[1], a[2], oo, oi)
    \/ \E fd \in 1..MaxOpens : Finalize(fd)
    \/ \E p \in {1}, oc \in CloseOutcomes : Close(p, oc)
    \/ \E p \in {1}, buf \in RawBufs : CallWriteBytes(p, buf, OkOracle)
    \/ \E p \in {1}, n \in 0..MaxN : CallReadBytes(p, n, OkOracle)
    \/ \E p \in {1}, reg \in {WordReg}, n \in 0..MaxN :
            CallReadRegBytes(p, reg, n, OkOracle)
    \/ \E p \in {1}, reg \in {WordReg} : CallReadRegU8(p, reg, OkOracle)
    \/ \E p \in {1} : ReturnReadRegU8(p, OkOracle)
    \/ \E p \in {1}, reg \in {WordReg}, x \in ByteArgs :
            CallWriteRegU8(p, reg, x, OkOracle)
    \/ \E p \in {1}, reg \in {WordReg} : CallReadRegU16BE(p, reg, OkOracle)
    \/ \E p \in {1}, reg \in {WordReg} : CallReadRegU16LE(p, reg, OkOracle)
    \/ \E p \in {1}, reg \in {WordReg} : CallReadRegS16BE(p, reg, OkOracle)
    \/ \E p \in {1}, reg \in {WordReg} : CallReadRegS16LE(p, reg, OkOracle)
    \/ \E p \in {1}, reg \in {WordReg}, x \in WordArgs :
            CallWriteRegU16BE(p, reg, x, OkOracle)
    \/ \E p \in {1}, reg \in {WordReg}, x \in WordArgs :
            CallWriteRegU16LE(p, reg, x, OkOracle)
    \/ \E p \in {1}, reg \in {WordReg}, x \in WordArgs :
            CallWriteRegS16BE(p, reg, S16(x), OkOracle)
    \/ \E p \in {1}, reg \in {WordReg}, x \in WordArgs :
            CallWriteRegS16LE(p, reg, S16(x), OkOracle)

Spec == Init /\ [][Next]_vars

\* The loopback specification: one caller uses every operation on an open
\* connection, an operation at a time, and every transfer succeeds.
InitReg ==
    /\ v = [rc |-> 1, addr |-> 39, bus |-> 2]
    /\ files = <<[path |-> DevPath(2), open |-> TRUE]>>
    /\ ioctls = <<Bind(1, 39, "ok")>>
    /\ sel = 0
    /\ mem = [r \in Regs |-> IF r = 0 THEN 128 ELSE 1]
    /\ wire = <<>>
    /\ pc = [p \in Callers |-> "idle"]
    /\ lreg = [p \in Callers |-> 0]
    /\ ret = NoRet
    /\ written = [r \in Regs |-> -1]
    /\ serialized = TRUE
    /\ word = 0

NextReg ==
    \/ \E p \in {1}, buf \in RawBufs : CallWriteBytes(p, buf, OkOracle)
    \/ \E p \in {1}, n \in 0..MaxN : CallReadBytes(p, n, OkOracle)
    \/ \E p \in {1}, reg \in Regs, n \in 0..MaxN :
            CallReadRegBytes(p, reg, n, OkOracle)
    \/ \E p \in {1}, reg \in Regs : CallReadRegU8(p, reg, OkOracle)
    \/ \E p \in {1} : ReturnReadRegU8(p, OkOracle)
    \/ \E p \in {1}, reg \in Regs, x \in ByteArgs :
            CallWriteRegU8(p, reg, x, OkOracle)
    \/ \E p \in {1}, reg \in Regs : CallReadRegU16BE(p, reg, OkOracle)
    \/ \E p \in {1}, reg \in Regs : CallReadRegU16LE(p, reg, OkOracle)
    \/ \E p \in {1}, reg \in Regs : CallReadRegS16BE(p, reg, OkOracle)
    \/ \E p \in {1}, reg \in Regs : CallReadRegS16LE(p, reg, OkOracle)
    \/ \E p \in {1}, reg \in Regs, x \in WordArgs :
            CallWriteRegU16BE(p, reg, x, OkOracle)
    \/ \E p \in {1}, reg \in Regs, x \in WordArgs :
            CallWriteRegU16LE(p, reg, x, OkOracle)
    \/ \E p \in {1}, reg \in Regs, x \in WordArgs :
            CallWriteRegS16BE(p, reg, S16(x), OkOracle)
    \/ \E p \in {1}, reg \in Regs, x \in WordArgs :
            CallWriteRegS16LE(p, reg, S16(x), OkOracle)

SpecReg == InitReg /\ [][NextReg]_vars

\* The fault specification: one caller uses every operation on an open
\* connection, an operation at a time; each read and each register-select
\* write succeeds, fails or comes up short as the environment chooses, and
\* every write that would store to a register fails.
FailedWrites == WOracles \ {OkOracle}

NextFault ==
    \/ \E p \in {1}, reg \in Regs, o \in WOracles : CallWriteBytes(p, <<reg>>, o)
    \/ \E p \in {1}, reg \in Regs, x \in ByteArgs, o \in FailedWrites :
            CallWriteBytes(p, <<reg, x>>, o)
    \/ \E p \in {1}, n \in 0..MaxN, o \in ROracles : CallReadBytes(p, n, o)
    \/ \E p \in {1}, reg \in Regs, n \in 0..MaxN, o \in Oracles :
            CallReadRegBytes(p, reg, n, o)
    \/ \E p \in {1}, reg \in Regs, o \in WOracles : CallReadRegU8(p, reg, o)
    \/ \E p \in {1}, o \in ROracles : ReturnReadRegU8(p, o)
    \/ \E p \in {1}, reg \in Regs, o \in Oracles : CallReadRegU16BE(p, reg, o)
    \/ \E p \in {1}, reg \in Regs, o \in Oracles : CallReadRegU16LE(p, reg, o)
    \/ \E p \in {1}, reg \in Regs, o \in Oracles : CallReadRegS16BE(p, reg, o)
    \/ \E p \in {1}, reg \in Regs, o \in Oracles : CallReadRegS16LE(p, reg, o)
    \/ \E p \in {1}, reg \in Regs, x \in ByteArgs, o \in FailedWrites :
            CallWriteRegU8(p, reg, x, o)
    \/ \E p \in {1}, reg \in Regs, x \in WordArgs, o \in FailedWrites :
            CallWriteRegU16BE(p, reg, x, o)
    \/ \E p \in {1}, reg \in Regs, x \in WordArgs, o \in FailedWrites :
            CallWriteRegU16LE(p, reg, x, o)
    \/ \E p \in {1}, reg \in Regs, x \in WordArgs, o \in FailedWrites :
            CallWriteRegS16BE(p, reg, S16(x), o)
    \/ \E p \in {1}, reg \in Regs, x \in WordArgs, o \in FailedWrites :
            CallWriteRegS16LE(p, reg, S16(x), o)

SpecFault == InitReg /\ [][NextFault]_vars

\* The word specification: one caller on an open connection whose transfers
\* all succeed.  word is the caller's argument to the word writes (its low
\* byte the argument to the byte write), and the
\* peripheral's register WordReg and the one after it hold the two bytes of
\* its one's complement, so that over all words the reads see every pair of
\* bytes and every write changes the registers.  A behaviour is one word
\* operation, or a big-endian word write and the word read that follows it.
InitWord ==
    /\ word \in 0..65535
    /\ v = [rc |-> 1, addr |-> 39, bus |-> 2]
    /\ files = <<[path |-> DevPath(2), open |-> TRUE]>>
    /\ ioctls = <<Bind(1, 39, "ok")>>
    /\ sel = 0
    /\ mem = [r \in Regs |-> IF r = WordReg THEN (65535 - word) \div 256
                             ELSE IF r = (WordReg + 1) % NumRegs
                             THEN (65535 - word) % 256 ELSE 0]
    /\ wire = <<>>
    /\ pc = [p \in Callers |-> "idle"]
    /\ lreg = [p \in Callers |-> 0]
    /\ ret = NoRet
    /\ written = [r \in Regs |-> -1]
    /\ serialized = TRUE

WordWrites == {"WriteRegU16BE", "WriteRegS16BE"}

MayRead == ret = NoRet \/ ret.op \in WordWrites
MayWrite == ret = NoRet

NextWord ==
    \/ MayRead /\ CallReadRegU16BE(1, WordReg, OkOracle)
    \/ MayRead /\ CallReadRegU16LE(1, WordReg, OkOracle)
    \/ MayRead /\ CallReadRegS16BE(1, WordReg, OkOracle)
    \/ MayRead /\ CallReadRegS16LE(1, WordReg, OkOracle)
    \/ MayWrite /\ CallWriteRegU16BE(1, WordReg, word, OkOracle)
    \/ MayWrite /\ CallWriteRegU16LE(1, WordReg, word, OkOracle)
    \/ MayWrite /\ CallWriteRegS16BE(1, WordReg, S16(word), OkOracle)
    \/ MayWrite /\ CallWriteRegS16LE(1, WordReg, S16(word), OkOracle)
    \/ MayWrite /\ CallWriteRegU8(1, WordReg, word % 256, OkOracle)

SpecWord == InitWord /\ [][NextWord]_vars

\* The shared-connection specification: the callers read 8-bit registers on
\* one open connection, each ReadRegU8 in its two transfers; they either
\* serialize their operations or do not.
InitConc ==
    /\ v = [rc |-> 1, addr |-> 39, bus |-> 2]
    /\ files = <<[path |-> DevPath(2), open |-> TRUE]>>
    /\ ioctls = <<Bind(1, 39, "ok")>>
    /\ sel = 0
    /\ mem = [r \in Regs |-> IF r = 0 THEN 128 ELSE 1]
    /\ wire = <<>>
    /\ pc = [p \in Callers |-> "idle"]
    /\ lreg = [p \in Callers |-> 0]
    /\ ret = NoRet
    /\ written = [r \in Regs |-> -1]
    /\ serialized \in BOOLEAN
    /\ word = 0

NextConc ==
    \/ \E p \in Callers, reg \in Regs, o \in WOracles : CallReadRegU8(p, reg, o)
    \/ \E p \in Callers, o \in ROracles : ReturnReadRegU8(p, o)

SpecConc == InitConc /\ [][NextConc]_vars

(* ---------------------------------------------------------------- claims *)

\* The calls to rc.Write and rc.Read that the operation which returned last
\* has made, in order.
OpWire == ret.calls

\* The last operation made a write and then a read that delivered two bytes.
ReadTwoBytes ==
    /\ Len(OpWire) = 2
    /\ OpWire[2].dir = "r"
    /\ OpWire[2].err = Nil
    /\ OpWire[2].n = 2

\* The bytes the last operation's read delivered.
WireBytes == OpWire[2].buf

\* The last operation made exactly one call, a write of buf.
WroteOnly(buf) ==
    /\ Len(OpWire) = 1
    /\ OpWire[1].dir = "w"
    /\ OpWire[1].buf = buf

\* C1: whenever ReadRegS16LE returns without error after the transport
\* delivered the bytes [b0, b1], it returns the signed 16-bit value of
\* (b1 << 8) | b0.
C1_ReadRegS16LEIsByteSwap ==
    (ret.op = "ReadRegS16LE" /\ ret.err = Nil /\ ReadTwoBytes)
        => ret.val = S16(WireBytes[2] * 256 + WireBytes[1])

\* C2: the one write WriteRegU16LE(reg, v) makes carries [reg, v mod 256, v div 256].
C2_WriteRegU16LEWritesLowHigh ==
    ret.op = "WriteRegU16LE"
        => WroteOnly(<<ret.reg, ret.arg % 256, ret.arg \div 256>>)

\* C3: the one write WriteRegS16LE(reg, v) makes carries the register, then the
\* low byte, then the high byte of the two's complement pattern of v.
C3_WriteRegS16LEWritesLowHigh ==
    ret.op = "WriteRegS16LE"
        => WroteOnly(<<ret.reg, U16(ret.arg) % 256, U16(ret.arg) \div 256>>)

\* C4: whenever a 16-bit unsigned read returns without error after the
\* transport delivered the bytes [b0, b1], ReadRegU16BE returns b0*256 + b1 and
\* ReadRegU16LE returns b1*256 + b0.
C4_U16ReadsComposeWireBytes ==
    /\ (ret.op = "ReadRegU16BE" /\ ret.err = Nil /\ ReadTwoBytes)
            => ret.val = WireBytes[1] * 256 + WireBytes[2]
    /\ (ret.op = "ReadRegU16LE" /\ ret.err = Nil /\ ReadTwoBytes)
            => ret.val = WireBytes[2] * 256 + WireBytes[1]

\* ReadRegU16LE has returned 0x0201 for the wire bytes [0x01, 0x02].
C4_Witness ==
    /\ ret.op = "ReadRegU16LE"
    /\ ret.err = Nil
    /\ ReadTwoBytes
    /\ WireBytes = <<1, 2>>
    /\ ret.val = 513

\* C5: when WriteRegS16BE(reg, v) has returned without error and the
\* ReadRegS16BE that follows is delivered the two value bytes it wrote, that
\* read returns v.
C5_S16BERoundTrip ==
    [][(/\ ret.op = "WriteRegS16BE"
        /\ ret.err = Nil
        /\ Len(OpWire) = 1
        /\ ret'.op = "ReadRegS16BE"
        /\ ret'.err = Nil
        /\ ReadTwoBytes'
        /\ WireBytes' = Tail(OpWire[1].buf))
            => ret'.val = ret.arg]_vars

\* ReadRegS16BE has returned -32768 from the registers that a write of the word
\* 0x8000 has filled (they held 0x7FFF before it).
C5_Witness ==
    /\ word = 32768
    /\ ret.op = "ReadRegS16BE"
    /\ ret.err = Nil
    /\ ReadTwoBytes
    /\ WireBytes = <<128, 0>>
    /\ ret.val = -32768

RegReads == {"ReadRegBytes", "ReadRegU8", "ReadRegU16BE", "ReadRegU16LE",
             "ReadRegS16BE", "ReadRegS16LE"}

\* C6: a register read whose register-select write returned an error has made
\* no other call (no read was issued) and has returned that error.
C6_FailedSelectShortCircuits ==
    (/\ ret.op \in RegReads
     /\ OpWire # <<>>
     /\ OpWire[1].dir = "w"
     /\ OpWire[1].err # Nil)
        => /\ Len(OpWire) = 1
           /\ ret.err = OpWire[1].err

\* ReadRegU16LE has returned the error EREMOTEIO of its register-select write.
C6_Witness ==
    /\ ret.op = "ReadRegU16LE"
    /\ ret.err = "EREMOTEIO"
    /\ Len(OpWire) = 1
    /\ OpWire[1].dir = "w"
    /\ OpWire[1].buf = <<ret.reg>>
    /\ OpWire[1].err = "EREMOTEIO"

\* C7: with the operations issued one at a time, a ReadRegU8(r) that returns
\* without error returns the byte the last successful WriteRegU8(r, x) stored,
\* as long as no other write has touched register r since.
C7_U8RoundTrip ==
    (/\ serialized
     /\ ret.op = "ReadRegU8"
     /\ ret.err = Nil
     /\ written[ret.reg] # -1)
        => ret.val = written[ret.reg]

\* ReadRegU8(0) has returned the 1 that WriteRegU8(0, 1) stored over the
\* register's first content, 128.
C7_Witness ==
    /\ serialized
    /\ ret.op = "ReadRegU8"
    /\ ret.err = Nil
    /\ ret.reg = 0
    /\ written[0] = 1
    /\ ret.val = 1

\* The binding calls issued on file fd, in order.
BindingsOf(fd) == LET On(c) == c.fd = fd IN SelectSeq(ioctls, On)

\* C8: every control call is a binding call on a file that was opened; no
\* transfer is made before a connection exists; and the file of a connection
\* is the device node of its bus, on which exactly one control call was ever
\* issued: I2C_SLAVE with the connection's address, at open.  Every transfer
\* goes to that file.
C8_BoundOnceAtOpen ==
    /\ \A i \in 1..Len(ioctls) :
            ioctls[i].fd \in 1..Len(files) /\ ioctls[i].cmd = I2C_SLAVE
    /\ \A fd \in 1..Len(files) : Len(BindingsOf(fd)) = 1
    /\ v = NoConn => (wire = <<>> /\ ret.calls = <<>>)
    /\ v # NoConn =>
            /\ v.rc \in 1..Len(files)
            /\ files[v.rc].path = DevPath(v.bus)
            /\ BindingsOf(v.rc) = <<[fd |-> v.rc, cmd |-> I2C_SLAVE, arg |-> v.addr, res |-> "ok"]>>
            /\ \A i \in 1..Len(wire) : wire[i].fd = v.rc
            /\ \A i \in 1..Len(ret.calls) : ret.calls[i].fd = v.rc

\* The connection opened by NewI2C(0x27, 2) has made a register read and has
\* been closed: "/dev/i2c-2" was bound once, to 0x27 with I2C_SLAVE.
C8_Witness ==
    /\ v # NoConn
    /\ v.addr = 39
    /\ v.bus = 2
    /\ files[v.rc].path = "/dev/i2c-2"
    /\ ~files[v.rc].open
    /\ ioctls = <<[fd |-> v.rc, cmd |-> 1795, arg |-> 39, res |-> "ok"]>>
    /\ ret.op = "ReadRegU8"

\* The last operation returned after a successful Close: it is that Close, or
\* it returned ErrClosed.
AfterClose == (ret.op = "Close" /\ ret.err = Nil) \/ ret.err = ErrClosed

\* C9: once Close has succeeded, every operation that returns returns
\* ErrClosed, every call it made was refused with ErrClosed and moved no byte,
\* and the peripheral is as it was.
C9_ClosedHandleAfterClose ==
    [][(AfterClose /\ ret' # ret)
            => /\ ret'.err = ErrClosed
               /\ \A i \in 1..Len(ret'.calls) :
                    ret'.calls[i].err = ErrClosed /\ ret'.calls[i].n = 0
               /\ mem' = mem
               /\ sel' = sel]_vars

\* On a closed connection WriteRegU8 has returned ErrClosed, its write refused.
C9_Witness ==
    /\ v # NoConn
    /\ ~files[v.rc].open
    /\ ret.op = "WriteRegU8"
    /\ ret.err = ErrClosed
    /\ Len(ret.calls) = 1
    /\ ret.calls[1].err = ErrClosed

\* ReadRegU8 has returned a byte: its read is the last call it made.
ReadRegU8Answered ==
    /\ ret.op = "ReadRegU8"
    /\ ret.err = Nil
    /\ OpWire # <<>>
    /\ OpWire[Len(OpWire)].dir = "r"
    /\ OpWire[Len(OpWire)].buf = <<ret.val>>

\* The register the last operation's last call was answered from.
AnsweredFrom == OpWire[Len(OpWire)].ptr

\* C10: when the callers serialize their operations, the byte a ReadRegU8(r)
\* returns was read from register r.
C10_SerializedReadsOwnRegister ==
    (serialized /\ ReadRegU8Answered) => AnsweredFrom = ret.reg

\* Without serialization, a ReadRegU8(r) has returned the byte of another
\* register, the one another caller selected in between.
C10_Witness ==
    /\ ~serialized
    /\ ReadRegU8Answered
    /\ Len(OpWire) = 2
    /\ OpWire[1].buf = <<ret.reg>>
    /\ OpWire[1].err = Nil
    /\ AnsweredFrom # ret.reg

RegWrites == {"WriteRegU8", "WriteRegU16BE", "WriteRegU16LE", "WriteRegS16BE",
              "WriteRegS16LE"}

\* The number of bytes the last operation, a register read, has to read.
ExpectedWidth ==
    IF ret.op = "ReadRegBytes" THEN ret.arg
    ELSE IF ret.op = "ReadRegU8" THEN 1 ELSE 2

\* C11: a register read that returned without error made exactly two calls,
\* a write of the one byte [reg] and then a read of the expected width (n, 1
\* or 2 bytes), the little-endian reads like the big-endian ones; a register
\* write that returned made exactly one call, a write.
C11_OneWriteThenOneRead ==
    /\ (ret.op \in RegReads /\ ret.err = Nil) =>
            /\ Len(OpWire) = 2
            /\ OpWire[1].dir = "w"
            /\ OpWire[1].buf = <<ret.reg>>
            /\ OpWire[2].dir = "r"
            /\ OpWire[2].len = ExpectedWidth
    /\ ret.op \in RegWrites =>
            /\ Len(OpWire) = 1
            /\ OpWire[1].dir = "w"

\* ReadRegU16LE has returned a word after the write of [reg] and one read of
\* two bytes, the transfers ReadRegU16BE makes.
C11_Witness ==
    /\ ret.op = "ReadRegU16LE"
    /\ ret.err = Nil
    /\ Len(OpWire) = 2
    /\ OpWire[1].buf = <<ret.reg>>
    /\ OpWire[2].dir = "r"
    /\ OpWire[2].len = 2
    /\ OpWire[2].n = 2
    /\ ret.val = OpWire[2].buf[2] * 256 + OpWire[2].buf[1]

\* C12: the one write WriteRegU8(reg, x) makes carries [reg, x], and the one
\* write WriteRegU16BE(reg, v) makes carries [reg, v div 256, v mod 256].
C12_WritesRegisterThenValue ==
    /\ ret.op = "WriteRegU8" => WroteOnly(<<ret.reg, ret.arg>>)
    /\ ret.op = "WriteRegU16BE"
            => WroteOnly(<<ret.reg, ret.arg \div 256, ret.arg % 256>>)

\* WriteRegU8(reg, 0xF3) has written [reg, 0xF3].
C12_Witness ==
    /\ ret.op = "WriteRegU8"
    /\ ret.err = Nil
    /\ ret.arg = 243
    /\ Len(OpWire) = 1
    /\ OpWire[1].dir = "w"
    /\ OpWire[1].buf = <<ret.reg, 243>>
    /\ OpWire[1].n = 2

WordReads == {"ReadRegU16BE", "ReadRegU16LE", "ReadRegS16BE", "ReadRegS16LE"}

\* C13: a 16-bit register read that returns a word without error has read two
\* bytes: its read delivered both bytes of the word.
C13_WordFromTwoBytesRead ==
    (ret.op \in WordReads /\ ret.err = Nil) => ReadTwoBytes

\* The last operation's register-select write succeeded and the read after it
\* returned an error.
ReadHalfFailed ==
    /\ ret.op \in RegReads
    /\ Len(OpWire) >= 2
    /\ OpWire[1].dir = "w"
    /\ OpWire[1].err = Nil
    /\ OpWire[2].dir = "r"
    /\ OpWire[2].err # Nil

\* C14: a register read whose register-select write succeeded and whose read
\* failed returns the read's error with a zero result (the value or count 0,
\* the buffer nil), having made those two calls and no other.
C14_FailedReadReturnsZero ==
    ReadHalfFailed
        => /\ Len(OpWire) = 2
           /\ ret.err = OpWire[2].err
           /\ ret.val = 0
           /\ ret.buf = <<>>

\* ReadRegBytes(reg, 2) has returned nil, 0 and EIO: its write of [reg] was
\* taken and its read of two bytes failed with EIO.
C14_Witness ==
    /\ ret.op = "ReadRegBytes"
    /\ ret.arg = 2
    /\ ret.err = "EIO"
    /\ ret.val = 0
    /\ ret.buf = <<>>
    /\ Len(OpWire) = 2
    /\ OpWire[1].buf = <<ret.reg>>
    /\ OpWire[1].n = 1
    /\ OpWire[2].dir = "r"
    /\ OpWire[2].len = 2
    /\ OpWire[2].err = "EIO"
    /\ sel = ret.reg

\* The device nodes that are open.
OpenHandles == {fd \in 1..Len(files) : files[fd].open}

\* C15: every open device node is the file of the connection that NewI2C
\* returned, and after a NewI2C that returned an error no connection exists
\* and no device node it opened is open.
C15_OpenHandlesAreOwned ==
    /\ \A fd \in OpenHandles : v # NoConn /\ v.rc = fd
    /\ (ret.op = "NewI2C" /\ ret.err # Nil) => (v = NoConn /\ OpenHandles = {})

====
